---- MODULE Spec2Model ----
(***************************************************************************)
(* gym-tracker: a command-line workout log over an embedded document       *)
(* store.  Every invocation of the program runs one command (write,        *)
(* read-logs, read-date) against the store kept under ./gymtracker.        *)
(* The store holds one collection, workout-data, with two views:           *)
(* by-user-name and by-date.                                               *)
(***************************************************************************)
EXTENDS Integers, Sequences, FiniteSets, TLC

\* ---------------------------------------------------------------- bounds
MaxDocs == 3
MaxMappings == 3

\* ------------------------------------------------------- command inputs
Usernames == {"Alice", "Bob"}
Dates == {"5-5-2024", "1-1-2024"}
Times == {"06:00-07:00"}
BodyWeights == {1805, 1500}
MuscleGroups == {"Back, Biceps"}
Intensities == {7}

\* struct WorkoutInputs: the six fields of one stored record
WorkoutInputs ==
    [username : Usernames, date : Dates, time : Times,
     body_weight : BodyWeights, muscle_group : MuscleGroups,
     intensity : Intensities]

\* enum MethodType: the three subcommands with their arguments
MethodType ==
    [cmd : {"ReadLogs"}, username : Usernames]
    \cup [cmd : {"ReadDate"}, username : Usernames, date : Dates]
    \cup [cmd : {"Write"}, username : Usernames, date : Dates, time : Times,
          body_weight : BodyWeights, muscle_group : MuscleGroups,
          intensity : Intensities]

NoArgs == [cmd |-> "none"]

\* the storage call of a command that fails, if any
WriteFaults == {"none", "open", "create_database", "insert"}
ReadFaults == {"none", "open", "query"}

VARIABLES
    docs,        \* the workout-data collection on disk: sequence of documents
    dbCreated,   \* whether the database "workout-data" exists in the storage
    args,        \* GymtrackerArgs.user_method of the latest invocation
    outcome,     \* how the latest invocation ended
    stdout,      \* the success line printed by the latest invocation
    rendered,    \* the records printed as tables by the latest invocation
    view,        \* the view whose reduce is evaluated
    mappings,    \* the slice of mapped values handed to reduce
    reduced      \* the result of reduce

vars == <<docs, dbCreated, args, outcome, stdout, rendered,
          view, mappings, reduced>>
storeVars == <<docs, dbCreated>>
reduceVars == <<view, mappings, reduced>>
cliVars == <<docs, dbCreated, args, outcome, stdout, rendered>>

SuccessLine == "Workout data has successfuly been inputed into the database."

\* ------------------------------------------------------------- helpers
Range(s) == {s[i] : i \in 1..Len(s)}

\* ------------------------------------------------------------ the views
\* UserView::map emitting the date as the key
UserViewMap_dateKey(document) ==
    [source |-> document.id,
     key |-> document.contents.date,
     value |-> <<document.contents.date,
                 document.contents.time,
                 document.contents.body_weight,
                 document.contents.muscle_group,
                 document.contents.intensity>>,
     document |-> document]

\* UserView::map: key = username, value = the five other fields
UserViewMap(document) ==
    [source |-> document.id,
     key |-> document.contents.username,
     value |-> <<document.contents.date,
                 document.contents.time,
                 document.contents.body_weight,
                 document.contents.muscle_group,
                 document.contents.intensity>>,
     document |-> document]

\* DateView::map emitting UserView's value tuple (date first)
DateViewMap_copied(document) ==
    [source |-> document.id,
     key |-> document.contents.date,
     value |-> <<document.contents.date,
                 document.contents.time,
                 document.contents.body_weight,
                 document.contents.muscle_group,
                 document.contents.intensity>>,
     document |-> document]

\* DateView::map: key = date, value = the five other fields
DateViewMap(document) ==
    [source |-> document.id,
     key |-> document.contents.date,
     value |-> <<document.contents.username,
                 document.contents.time,
                 document.contents.body_weight,
                 document.contents.muscle_group,
                 document.contents.intensity>>,
     document |-> document]

\* view::<UserView>().with_key(username).query_with_docs()
QueryUserView(store, username) ==
    SelectSeq([i \in 1..Len(store) |-> UserViewMap(store[i])],
              LAMBDA mapping : mapping.key = username)

\* view::<DateView>().with_key(date).query_with_docs()
QueryDateView(store, date) ==
    SelectSeq([i \in 1..Len(store) |-> DateViewMap(store[i])],
              LAMBDA mapping : mapping.key = date)

\* WorkoutInputs::document_contents(mapping.document)
DocumentContents(mapping) == mapping.document.contents

\* ------------------------------------------------------------- reduce
Panic == [kind |-> "panic"]
NotReduced == [kind |-> "none"]

RECURSIVE ReduceLoop(_, _, _, _)
\* for mapping in mappings.iter() { if &mapping.key == key { ... } }
ReduceLoop(ms, i, key, workout_info) ==
    IF i > Len(ms) THEN workout_info
    ELSE IF ms[i].key = key
         THEN ReduceLoop(ms, i + 1, ms[i].key, ms[i].value)
         ELSE ReduceLoop(ms, i + 1, key, workout_info)

\* UserView::reduce that never moves off the first mapping
UserViewReduce_first(ms) ==
    IF Len(ms) = 0 THEN Panic
    ELSE [kind |-> "Ok", value |-> ms[1].value]

\* UserView::reduce; mappings[0] on an empty slice is an index panic
UserViewReduce(ms) ==
    IF Len(ms) = 0 THEN Panic
    ELSE [kind |-> "Ok", value |-> ReduceLoop(ms, 1, ms[1].key, ms[1].value)]

\* DateView::reduce; mappings[0] on an empty slice is an index panic
DateViewReduce(ms) ==
    IF Len(ms) = 0 THEN Panic
    ELSE [kind |-> "Ok", value |-> ReduceLoop(ms, 1, ms[1].key, ms[1].value)]

\* ------------------------------------------------------------ the store
\* the identity push_into gives the next document of the collection
NextId(store) == IF store = <<>> THEN 1 ELSE store[Len(store)].id + 1

\* the WorkoutInputs struct literal, under the identity the store assigns
NewDocument(store, username, date, time, body_weight, muscle_group, intensity) ==
    [id |-> NextId(store),
     contents |-> [username |-> username, date |-> date, time |-> time,
                   body_weight |-> body_weight, muscle_group |-> muscle_group,
                   intensity |-> intensity]]

\* insert with the date and time fields exchanged
Insert_swapped(store, username, date, time, body_weight, muscle_group, intensity) ==
    Append(store, NewDocument(store, username, time, date, body_weight,
                              muscle_group, intensity))

\* insert overwriting the record the user already has for the date
Insert_replace(store, username, date, time, body_weight, muscle_group, intensity) ==
    IF \E i \in 1..Len(store) : /\ store[i].contents.username = username
                                /\ store[i].contents.date = date
    THEN [i \in 1..Len(store) |->
            IF store[i].contents.username = username
               /\ store[i].contents.date = date
            THEN [id |-> store[i].id,
                  contents |-> NewDocument(store, username, date, time,
                                           body_weight, muscle_group,
                                           intensity).contents]
            ELSE store[i]]
    ELSE Append(store, NewDocument(store, username, date, time, body_weight,
                                   muscle_group, intensity))

\* insert skipping a record whose fields are already stored
Insert_dedupe(store, username, date, time, body_weight, muscle_group, intensity) ==
    IF \E i \in 1..Len(store) :
          store[i].contents = NewDocument(store, username, date, time,
                                          body_weight, muscle_group,
                                          intensity).contents
    THEN store
    ELSE Append(store, NewDocument(store, username, date, time, body_weight,
                                   muscle_group, intensity))

\* WorkoutInputs::insert: build the record and push it into the collection
Insert(store, username, date, time, body_weight, muscle_group, intensity) ==
    Append(store, NewDocument(store, username, date, time, body_weight,
                              muscle_group, intensity))

\* the rows print_all_data prints for a user
PrintAllDataRows(store, username) ==
    LET user_data == QueryUserView(store, username)
    IN [i \in 1..Len(user_data) |-> DocumentContents(user_data[i])]

\* the rows print_specific_day prints for a user and a date
PrintSpecificDayRows(store, username, date) ==
    LET date_specific_data == QueryDateView(store, date)
        printed == SelectSeq(date_specific_data,
                             LAMBDA mapping : username = mapping.value[1])
    IN [i \in 1..Len(printed) |-> DocumentContents(printed[i])]

\* ----------------------------------------------------------- the state
Init ==
    /\ docs = <<>>
    /\ dbCreated = FALSE
    /\ args = NoArgs
    /\ outcome = "none"
    /\ stdout = <<>>
    /\ rendered = <<>>
    /\ view = "none"
    /\ mappings = <<>>
    /\ reduced = NotReduced

\* insert_data that drops the result of the insert
insert_data_unchecked(a, fault) ==
    /\ a.cmd = "Write"
    /\ Len(docs) < MaxDocs
    /\ args' = a
    /\ rendered' = <<>>
    /\ IF fault = "open"
       THEN /\ outcome' = "OpenFailed"
            /\ stdout' = <<>>
            /\ UNCHANGED storeVars
       ELSE IF fault = "create_database"
       THEN /\ outcome' = "CreateFailed"
            /\ stdout' = <<>>
            /\ UNCHANGED storeVars
       ELSE /\ outcome' = "ok"
            /\ stdout' = <<SuccessLine>>
            /\ dbCreated' = TRUE
            /\ docs' = IF fault # "insert"
                       THEN Insert(docs, a.username, a.date, a.time,
                                   a.body_weight, a.muscle_group, a.intensity)
                       ELSE docs
    /\ UNCHANGED reduceVars

\* insert_data, run as `gymtracker write ...`
insert_data(a, fault) ==
    /\ a.cmd = "Write"
    /\ Len(docs) < MaxDocs
    /\ args' = a
    /\ rendered' = <<>>
    /\ IF fault = "open"
       THEN /\ outcome' = "OpenFailed"
            /\ stdout' = <<>>
            /\ UNCHANGED storeVars
       ELSE IF fault = "create_database"
       THEN /\ outcome' = "CreateFailed"
            /\ stdout' = <<>>
            /\ UNCHANGED storeVars
       ELSE IF fault = "insert"
       THEN /\ outcome' = "InsertFailed"
            /\ stdout' = <<>>
            /\ dbCreated' = TRUE
            /\ UNCHANGED docs
       ELSE /\ outcome' = "ok"
            /\ stdout' = <<SuccessLine>>
            /\ dbCreated' = TRUE
            /\ docs' = Insert(docs, a.username, a.date, a.time, a.body_weight,
                              a.muscle_group, a.intensity)
    /\ UNCHANGED reduceVars

\* print_all_data opening the database with create_database, as the write does
print_all_data_creating(a, fault) ==
    /\ a.cmd = "ReadLogs"
    /\ args' = a
    /\ stdout' = <<>>
    /\ IF fault = "open"
       THEN outcome' = "OpenFailed" /\ rendered' = <<>> /\ UNCHANGED dbCreated
       ELSE IF fault = "query"
       THEN outcome' = "QueryFailed" /\ rendered' = <<>> /\ dbCreated' = TRUE
       ELSE /\ outcome' = "ok"
            /\ rendered' = PrintAllDataRows(docs, a.username)
            /\ dbCreated' = TRUE
    /\ UNCHANGED docs
    /\ UNCHANGED reduceVars

\* print_all_data, run as `gymtracker read-logs <username>`
print_all_data(a, fault) ==
    /\ a.cmd = "ReadLogs"
    /\ args' = a
    /\ stdout' = <<>>
    /\ IF fault = "open"
       THEN outcome' = "OpenFailed" /\ rendered' = <<>>
       ELSE IF ~dbCreated
       THEN outcome' = "DatabaseNotFound" /\ rendered' = <<>>
       ELSE IF fault = "query"
       THEN outcome' = "QueryFailed" /\ rendered' = <<>>
       ELSE outcome' = "ok" /\ rendered' = PrintAllDataRows(docs, a.username)
    /\ UNCHANGED storeVars
    /\ UNCHANGED reduceVars

\* print_specific_day, run as `gymtracker read-date <username> <date>`
print_specific_day(a, fault) ==
    /\ a.cmd = "ReadDate"
    /\ args' = a
    /\ stdout' = <<>>
    /\ IF fault = "open"
       THEN outcome' = "OpenFailed" /\ rendered' = <<>>
       ELSE IF ~dbCreated
       THEN outcome' = "DatabaseNotFound" /\ rendered' = <<>>
       ELSE IF fault = "query"
       THEN outcome' = "QueryFailed" /\ rendered' = <<>>
       ELSE outcome' = "ok"
            /\ rendered' = PrintSpecificDayRows(docs, a.username, a.date)
    /\ UNCHANGED storeVars
    /\ UNCHANGED reduceVars

\* run: dispatch on the subcommand
WriteCmd == \E a \in MethodType, fault \in WriteFaults : insert_data(a, fault)
ReadLogsCmd == \E a \in MethodType, fault \in ReadFaults : print_all_data(a, fault)
ReadDateCmd == \E a \in MethodType, fault \in ReadFaults :
                   print_specific_day(a, fault)

Next == WriteCmd \/ ReadLogsCmd \/ ReadDateCmd

Spec == Init /\ [][Next]_vars

\* ------------------------------------------- reduce as a pure function
SeqsUpTo(S, n) == UNION {[1..k -> S] : k \in 0..n}

\* documents with consecutive identities holding the given contents
AsDocs(cs) == [i \in 1..Len(cs) |-> [id |-> i, contents |-> cs[i]]]

\* the mapped values a view emits for a sequence of documents
ViewMappings(v, cs) ==
    IF v = "by-user-name"
    THEN [i \in 1..Len(cs) |-> UserViewMap(AsDocs(cs)[i])]
    ELSE [i \in 1..Len(cs) |-> DateViewMap(AsDocs(cs)[i])]

InitReduce ==
    /\ docs = <<>>
    /\ dbCreated = FALSE
    /\ args = NoArgs
    /\ outcome = "none"
    /\ stdout = <<>>
    /\ rendered = <<>>
    /\ view \in {"by-user-name", "by-date"}
    /\ \E cs \in SeqsUpTo(WorkoutInputs, MaxMappings) :
           mappings = ViewMappings(view, cs)
    /\ reduced = NotReduced

ReduceUserView ==
    /\ view = "by-user-name"
    /\ reduced = NotReduced
    /\ reduced' = UserViewReduce(mappings)
    /\ UNCHANGED <<view, mappings>>
    /\ UNCHANGED cliVars

ReduceDateView ==
    /\ view = "by-date"
    /\ reduced = NotReduced
    /\ reduced' = DateViewReduce(mappings)
    /\ UNCHANGED <<view, mappings>>
    /\ UNCHANGED cliVars

NextReduce == ReduceUserView \/ ReduceDateView

SpecReduce == InitReduce /\ [][NextReduce]_vars

\* ================================================================ claims
FieldsOf(a) ==
    [username |-> a.username, date |-> a.date, time |-> a.time,
     body_weight |-> a.body_weight, muscle_group |-> a.muscle_group,
     intensity |-> a.intensity]

IsRead(a) == a.cmd \in {"ReadLogs", "ReadDate"}

RECURSIVE Count(_, _)
Count(s, e) ==
    IF s = <<>> THEN 0
    ELSE (IF Head(s) = e THEN 1 ELSE 0) + Count(Tail(s), e)

SameKey(ms) == \A i \in 1..Len(ms) : ms[i].key = ms[1].key

\* C1 (round trip): a successful write of the field tuple f followed by a
\* successful read-by-user of f.username renders a record equal to f in all
\* six fields, whatever was written before.
RoundTrip ==
    [][(/\ args.cmd = "Write"
        /\ outcome = "ok"
        /\ args'.cmd = "ReadLogs"
        /\ args'.username = args.username
        /\ outcome' = "ok")
       => \E i \in 1..Len(rendered') : rendered'[i] = FieldsOf(args)]_vars

RoundTripWitness ==
    /\ args.cmd = "ReadLogs"
    /\ outcome = "ok"
    /\ rendered # <<>>
    /\ docs # <<>>
    /\ docs[Len(docs)].contents.username = args.username
    /\ Len(docs) > Len(rendered)

\* the stored records of user u on date d, in stored order
RecordsOn(u, d) ==
    LET matching == SelectSeq(docs, LAMBDA document :
                                /\ document.contents.date = d
                                /\ document.contents.username = u)
    IN [i \in 1..Len(matching) |-> matching[i].contents]

\* C2 (date+user disambiguation): a successful read-by-date(u, d) renders
\* exactly the stored records whose date is d and whose username is u: no
\* record of another user sharing the date, and none of u on d left out.
DateUserDisambiguation ==
    (args.cmd = "ReadDate" /\ outcome = "ok")
    => rendered = RecordsOn(args.username, args.date)

DateUserWitness ==
    /\ args.cmd = "ReadDate"
    /\ outcome = "ok"
    /\ rendered # <<>>
    /\ \E i \in 1..Len(docs) :
          /\ docs[i].contents.date = args.date
          /\ docs[i].contents.username # args.username

UsersPresent == {docs[i].contents.username : i \in 1..Len(docs)}

\* C3 (index consistency): in every state read-by-user(u) yields only
\* records of u, and the records yielded over all usernames present are
\* exactly the stored records, with no reindex step after a write.
IndexConsistency ==
    /\ \A u \in Usernames :
          \A i \in 1..Len(QueryUserView(docs, u)) :
             /\ QueryUserView(docs, u)[i].document \in Range(docs)
             /\ DocumentContents(QueryUserView(docs, u)[i]).username = u
    /\ UNION {{m.source : m \in Range(QueryUserView(docs, u))} :
                u \in UsersPresent}
         = {docs[i].id : i \in 1..Len(docs)}

IndexConsistencyWitness ==
    /\ args.cmd = "Write"
    /\ outcome = "ok"
    /\ Cardinality(UsersPresent) = 2
    /\ Len(docs) >= 3

\* C4 (empty key): in every state of the store, a never-written store
\* included, read-by-user of a username without records ends with an
\* empty result and not with an error (storage failures set aside).
EmptyKeyIsEmptyResult ==
    (/\ args.cmd = "ReadLogs"
     /\ outcome \notin {"OpenFailed", "QueryFailed"}
     /\ args.username \notin UsersPresent)
    => (outcome = "ok" /\ rendered = <<>>)

\* C5 (most recent wins): reduce over a non-empty sequence of entries that
\* share one key yields the value of the last entry, for both views.
MostRecentWins ==
    (reduced # NotReduced /\ mappings # <<>> /\ SameKey(mappings))
    => reduced = [kind |-> "Ok", value |-> mappings[Len(mappings)].value]

MostRecentWinsWitness ==
    /\ reduced # NotReduced
    /\ Len(mappings) = 3
    /\ SameKey(mappings)
    /\ mappings[1].value # mappings[3].value
    /\ mappings[2].value # mappings[3].value

\* C6 (not found): reduce over zero entries ends in a NotFound outcome,
\* not in a crash and not in a made-up record.
ReduceEmptyIsNotFound ==
    (reduced # NotReduced /\ mappings = <<>>) => reduced.kind = "NotFound"

\* C7 (append only): a stored record stays stored with its fields unchanged;
\* the number of records never decreases and grows only on a write.
AppendOnly ==
    [][/\ Len(docs') >= Len(docs)
       /\ SubSeq(docs', 1, Len(docs)) = docs
       /\ (Len(docs') > Len(docs) => args'.cmd = "Write")]_vars

AppendOnlyWitness ==
    /\ Len(docs) >= 2
    /\ IsRead(args)
    /\ outcome = "ok"
    /\ docs[1].contents.username = docs[2].contents.username
    /\ docs[1].contents.date = docs[2].contents.date

\* C8 (idempotent read): read-by-user and read-by-date leave the stored
\* records and both indexes as they were, so a repeated read-by-user with
\* no write in between renders the same sequence.
IdempotentRead ==
    [][IsRead(args')
       => /\ docs' = docs
          /\ dbCreated' = dbCreated
          /\ \A u \in Usernames :
                QueryUserView(docs', u) = QueryUserView(docs, u)
          /\ \A d \in Dates :
                QueryDateView(docs', d) = QueryDateView(docs, d)
          /\ (args' = args /\ outcome = "ok" /\ outcome' = "ok"
               => rendered' = rendered)]_vars

IdempotentReadWitness ==
    /\ args.cmd = "ReadLogs"
    /\ outcome = "ok"
    /\ Len(rendered) >= 2

\* C9 (storage error propagation): a write whose open, create or insert
\* fails ends in an error with no success line and the records unchanged;
\* the success line appears only with the record stored.
StorageErrorPropagation ==
    [][args'.cmd = "Write"
       => /\ (outcome' # "ok"
               => /\ outcome' \in {"OpenFailed", "CreateFailed", "InsertFailed"}
                  /\ docs' = docs
                  /\ stdout' = <<>>)
          /\ (stdout' # <<>>
               => /\ outcome' = "ok"
                  /\ docs' # <<>>
                  /\ docs'[Len(docs')].contents = FieldsOf(args')
                  /\ (docs' # docs => docs' = Append(docs, docs'[Len(docs')])))]_vars

StorageErrorWitness ==
    /\ args.cmd = "Write"
    /\ outcome = "InsertFailed"
    /\ stdout = <<>>
    /\ docs # <<>>

\* C10 (unique identity): a successful write stores exactly one new record
\* whose identity differs from all earlier ones, also when its fields equal
\* those of a stored record; read-by-user then shows one more such record.
UniqueIdentity ==
    [][(args'.cmd = "Write" /\ outcome' = "ok" /\ vars' # vars)
       => /\ Len(docs') = Len(docs) + 1
          /\ \A i, j \in 1..Len(docs') : i # j => docs'[i].id # docs'[j].id
          /\ Count(PrintAllDataRows(docs', args'.username), FieldsOf(args'))
             = Count(PrintAllDataRows(docs, args'.username), FieldsOf(args')) + 1]_vars

UniqueIdentityWitness ==
    /\ args.cmd = "Write"
    /\ outcome = "ok"
    /\ Len(docs) >= 2
    /\ docs[Len(docs)].contents = docs[Len(docs) - 1].contents
    /\ docs[Len(docs)].id # docs[Len(docs) - 1].id

====
